---- MODULE Spec2Model ----
(***************************************************************************)
(* Ticket-triage orchestrator (app/graph, app/main.py).                    *)
(*                                                                         *)
(* One conversation thread is modelled.  The graph engine keeps, per       *)
(* thread, a checkpoint (state values, the node to run next, the node that *)
(* ran last) and writes a checkpoint after every node.  A request runs on  *)
(* its own copy of the values, loaded when the request starts, and every   *)
(* node it runs overwrites the stored checkpoint with that copy.           *)
(*                                                                         *)
(* Engine rules used by the repository's calls:                            *)
(*  - invoke(input): the input is written into the values, unfinished     *)
(*    work of the checkpoint is dropped, execution starts at ingest;       *)
(*  - invoke(None): execution continues with the checkpoint's next node;   *)
(*    the interrupt before that node is not taken again;                   *)
(*  - update_state(values) with no as_node: the values are written as if   *)
(*    the node that ran last had returned them, and that node's outgoing   *)
(*    edges are evaluated again on the updated values; with no checkpoint  *)
(*    the update counts as graph input;                                    *)
(*  - a node's update that names a key outside GraphState is dropped;      *)
(*  - an exception in a node leaves the checkpoint of the previous node.   *)
(***************************************************************************)
EXTENDS Integers, Sequences, FiniteSets, TLC

\* ---------------------------------------------------------------- bounds
MaxRequests == 3
MaxFailures == 1
MaxConcRequests == 2
MaxLongRequests == 4
MaxTextLen == 2
MaxRules == 3
MaxPlainRequests == 1

\* ---------------------------------------------------------------- values
None == "None"

\* ReviewStatus (schema.py)
PENDING == "pending"
APPROVED == "approved"
REJECTED == "rejected"
ReviewStatus == {PENDING, APPROVED, REJECTED}

\* DraftScenario (schema.py)
REPLY == "reply"
NEED_IDENTIFIER == "need_identifier"
ORDER_NOT_FOUND == "order_not_found"
NO_ORDERS_FOUND == "no_orders_found"
CONFIRM_ORDER == "confirm_order"
DraftScenario == {REPLY, NEED_IDENTIFIER, ORDER_NOT_FOUND, NO_ORDERS_FOUND, CONFIRM_ORDER}

\* RoutePath (schema.py)
FULL == "full"
RECLASSIFY == "reclassify"
RESOLVE == "resolve"
DRAFT == "draft"
RoutePath == {FULL, RECLASSIFY, RESOLVE, DRAFT}

\* node names of the graph, and the two pseudo nodes
START == "__start__"
END == "__end__"
Nodes == {"ingest", "classify_issue", "resolve_order", "prepare_action",
          "kb_orchestrator", "policy_evaluator", "draft_reply",
          "admin_review", "finalize"}

\* mutant: the graph compiled with no interrupt point
no_interrupt_before == {}

\* hitl_graph is compiled with interrupt_before = ["admin_review"]
hitl_interrupt_before == {"admin_review"}

\* ---------------------------------------------------------------- order store
NoOrder == [order_id |-> None, email |-> None]

\* the order table loaded into tools.ORDERS: one customer with a single
\* order, one customer with two orders
ORDERS == << [order_id |-> "ORD1", email |-> "a@x.com"],
             [order_id |-> "ORD2", email |-> "b@x.com"],
             [order_id |-> "ORD3", email |-> "b@x.com"] >>

\* str.upper / str.lower on the words that occur in the model
Upper(w) ==
    CASE w = "ord1" -> "ORD1"
      [] w = "ord2" -> "ORD2"
      [] w = "a@x.com" -> "A@X.COM"
      [] OTHER -> w

Lower(w) ==
    CASE w = "ORD1" -> "ord1"
      [] w = "ORD2" -> "ord2"
      [] w = "ORD3" -> "ord3"
      [] w = "ORD9" -> "ord9"
      [] w = "A@X.COM" -> "a@x.com"
      [] w = "Refund" -> "refund"
      [] OTHER -> w

\* tools.fetch_order: first order with that exact id, else None
fetch_order(order_id) ==
    LET hits == SelectSeq(ORDERS, LAMBDA o : o.order_id = order_id)
    IN  IF Len(hits) > 0 THEN hits[1] ELSE NoOrder

\* mutant: the search gives up after the first match
search_orders_first_match(email) ==
    SubSeq(SelectSeq(ORDERS, LAMBDA o : Lower(o.email) = Lower(email)), 1, 1)

\* tools.search_orders: all orders whose email matches, case-insensitive
search_orders(email) ==
    SelectSeq(ORDERS, LAMBDA o : Lower(o.email) = Lower(email))

\* ---------------------------------------------------------------- ticket text
\* A ticket text is a sequence of words.
IsOrderWord(w) == w \in {"ord1", "ORD1", "ord2", "ORD2", "ORD3", "ORD9"}
IsEmailWord(w) == w \in {"a@x.com", "A@X.COM", "b@x.com", "c@x.com"}

Texts == { << >>,
           << "refund" >>,
           << "ORD9" >>,
           << "ord2" >>,
           << "A@X.COM" >>,
           << "b@x.com" >>,
           << "c@x.com" >> }

\* the texts used when two requests run at once
ConcTexts == { << "refund", "ord2" >> }

\* order_id values a request body may carry
RequestOrderIds == {None, "ORD1"}

\* nodes.extract_order_id: first ORD<digits> word, upper-cased
extract_order_id(text) ==
    LET hits == SelectSeq(text, IsOrderWord)
    IN  IF Len(hits) > 0 THEN Upper(hits[1]) ELSE None

\* nodes.extract_email: first address, lower-cased
extract_email(text) ==
    LET hits == SelectSeq(text, IsEmailWord)
    IN  IF Len(hits) > 0 THEN Lower(hits[1]) ELSE None

\* ---------------------------------------------------------------- classification
\* rule table (mock_data/issues.json): keyword, issue_type, priority
ISSUES == << [keyword |-> "refund", issue_type |-> "refund_request", priority |-> 1],
             [keyword |-> "charge", issue_type |-> "billing", priority |-> 2],
             [keyword |-> "duplicate charge", issue_type |-> "duplicate_charge", priority |-> 2] >>

KeywordLen(k) ==
    CASE k = "refund" -> 6
      [] k = "charge" -> 6
      [] k = "duplicate charge" -> 16
      [] OTHER -> 0

\* keyword in ticket_text.lower(): the keyword is a substring of the text;
\* "duplicate charge" is contained when the two words follow each other
KeywordIn(k, text) ==
    \/ \E i \in 1..Len(text) : Lower(text[i]) = k
    \/ /\ k = "duplicate charge"
       /\ \E i \in 1..(Len(text) - 1) :
            Lower(text[i]) = "duplicate" /\ Lower(text[i + 1]) = "charge"

\* mutant: among matches of equal priority the shorter keyword is preferred
BetterRule_shorter(a, b) ==
    \/ a.priority < b.priority
    \/ a.priority = b.priority /\ KeywordLen(a.keyword) < KeywordLen(b.keyword)

\* the key of min(matches, key = (priority, -len(keyword))) compared
BetterRule(a, b) ==
    \/ a.priority < b.priority
    \/ a.priority = b.priority /\ KeywordLen(a.keyword) > KeywordLen(b.keyword)

\* classify_issue on a rule table as load_issues returns it: the matches in
\* table order, then min(...), which returns the first minimal match
ClassifyWith(issues, text) ==
    LET matches == SelectSeq(issues, LAMBDA r : KeywordIn(r.keyword, text))
        best == CHOOSE i \in 1..Len(matches) :
                  /\ \A j \in 1..Len(matches) : ~BetterRule(matches[j], matches[i])
                  /\ \A j \in 1..(i - 1) : BetterRule(matches[i], matches[j])
    IN  IF Len(matches) = 0 THEN "unknown" ELSE matches[best].issue_type

ClassifyText(text) == ClassifyWith(ISSUES, text)

\* rule tables mock_data/issues.json may hold: up to MaxRules rules with
\* distinct keywords, in any order, each with priority 1 or 2
IssueTypeOf(k) ==
    CASE k = "refund" -> "refund_request"
      [] k = "charge" -> "billing"
      [] k = "duplicate charge" -> "duplicate_charge"

RulePool ==
    { [keyword |-> k, issue_type |-> IssueTypeOf(k), priority |-> p] :
        k \in {"refund", "charge", "duplicate charge"}, p \in {1, 2} }

RuleTables ==
    UNION { { t \in [1..n -> RulePool] :
                \A i, j \in 1..n : i # j => t[i].keyword # t[j].keyword } :
            n \in 0..MaxRules }

\* the same rules in another order
Reorderings(issues) ==
    { t \in RuleTables :
        /\ Len(t) = Len(issues)
        /\ {t[i] : i \in 1..Len(t)} = {issues[i] : i \in 1..Len(issues)} }

\* ticket texts for classification, up to MaxTextLen words
ClassifyWords == {"Refund", "charge", "duplicate", "hello"}
ClassifyTexts == UNION { [1..n -> ClassifyWords] : n \in 0..MaxTextLen }

\* ---------------------------------------------------------------- graph state
\* GraphState (state.py); None for an unset field, NoOrder for no order
\* details, the empty list for no candidate orders (None and [] are both
\* falsy wherever the code reads candidate_orders)
NoAction == [issue_type |-> None, order_id |-> None, policy |-> None]

EmptyState ==
    [ messages |-> << >>, ticket_text |-> << >>, order_id |-> None,
      email |-> None, issue_type |-> None, order_details |-> NoOrder,
      candidate_orders |-> << >>, draft_reply |-> None,
      draft_scenario |-> None, route_path |-> None,
      suggested_action |-> NoAction, review_status |-> None,
      admin_feedback |-> None, sender |-> None ]

HumanMessage(text) == [role |-> "human", text |-> text, draft |-> None, final |-> FALSE]
AIMessage(draft) == [role |-> "ai", text |-> << >>, draft |-> draft, final |-> FALSE]
FinalMessage(draft) == [role |-> "ai", text |-> << >>, draft |-> draft, final |-> TRUE]

\* A node's partial update merged into the state: keys that GraphState does
\* not declare are dropped, messages go through the add_messages reducer
\* (append), every other key is overwritten.
ApplyUpdate(state, update) ==
    [ k \in DOMAIN state |->
        IF k \in DOMAIN update
        THEN IF k = "messages" THEN state[k] \o update[k] ELSE update[k]
        ELSE state[k] ]

\* ---------------------------------------------------------------- nodes
needs_order(state) == state.order_details = NoOrder
needs_issue(state) == state.issue_type = None \/ state.issue_type = "unknown"

\* mutant: RESOLVE and RECLASSIFY exchanged
RouteOf_exchanged(needsOrder, needsIssue) ==
    IF needsOrder /\ needsIssue THEN FULL
    ELSE IF needsOrder THEN RECLASSIFY
    ELSE IF needsIssue THEN RESOLVE
    ELSE DRAFT

RouteOf(needsOrder, needsIssue) ==
    IF needsOrder /\ needsIssue THEN FULL
    ELSE IF needsOrder THEN RESOLVE
    ELSE IF needsIssue THEN RECLASSIFY
    ELSE DRAFT

ingest(state) ==
    LET text == state.ticket_text
        oid == extract_order_id(text)
        em == extract_email(text)
    IN  [ messages |-> << HumanMessage(text) >>,
          sender |-> "ingest",
          order_id |-> IF needs_order(state) /\ oid # None THEN oid ELSE state.order_id,
          email |-> IF needs_order(state) /\ em # None THEN em ELSE state.email,
          route_path |-> RouteOf(needs_order(state), needs_issue(state)) ]

classify_issue(state) ==
    [ issue_type |-> ClassifyText(state.ticket_text),
      sender |-> "classify_issue" ]

\* mutant: a lookup by id also fills candidate_orders
resolve_order_id_fills_candidates(state) ==
    IF state.order_id # None
    THEN LET order_details == fetch_order(state.order_id)
         IN  IF order_details # NoOrder
             THEN [ order_details |-> order_details,
                    candidate_orders |-> << order_details >>,
                    draft_scenario |-> REPLY,
                    sender |-> "resolve_order" ]
             ELSE [ order_details |-> NoOrder,
                    draft_scenario |-> ORDER_NOT_FOUND,
                    sender |-> "resolve_order" ]
    ELSE IF state.email # None
    THEN LET candidates == search_orders(state.email)
         IN  IF Len(candidates) = 0
             THEN [ candidate_orders |-> candidates,
                    draft_scenario |-> NO_ORDERS_FOUND,
                    sender |-> "resolve_order" ]
             ELSE IF Len(candidates) = 1
             THEN [ order_id |-> candidates[1].order_id,
                    order_details |-> candidates[1],
                    candidate_orders |-> candidates,
                    draft_scenario |-> REPLY,
                    sender |-> "resolve_order" ]
             ELSE [ candidate_orders |-> candidates,
                    draft_scenario |-> CONFIRM_ORDER,
                    sender |-> "resolve_order" ]
    ELSE [ draft_scenario |-> NEED_IDENTIFIER,
           sender |-> "resolve_order" ]

\* mutant: the result of the lookup by id is not tested
resolve_order_unchecked_id(state) ==
    IF state.order_id # None
    THEN [ order_details |-> fetch_order(state.order_id),
           draft_scenario |-> REPLY,
           sender |-> "resolve_order" ]
    ELSE IF state.email # None
    THEN LET candidates == search_orders(state.email)
         IN  IF Len(candidates) = 0
             THEN [ candidate_orders |-> candidates,
                    draft_scenario |-> NO_ORDERS_FOUND,
                    sender |-> "resolve_order" ]
             ELSE IF Len(candidates) = 1
             THEN [ order_id |-> candidates[1].order_id,
                    order_details |-> candidates[1],
                    candidate_orders |-> candidates,
                    draft_scenario |-> REPLY,
                    sender |-> "resolve_order" ]
             ELSE [ candidate_orders |-> candidates,
                    draft_scenario |-> CONFIRM_ORDER,
                    sender |-> "resolve_order" ]
    ELSE [ draft_scenario |-> NEED_IDENTIFIER,
           sender |-> "resolve_order" ]

resolve_order(state) ==
    IF state.order_id # None
    THEN LET order_details == fetch_order(state.order_id)
         IN  IF order_details # NoOrder
             THEN [ order_details |-> order_details,
                    draft_scenario |-> REPLY,
                    sender |-> "resolve_order" ]
             ELSE [ order_details |-> NoOrder,
                    draft_scenario |-> ORDER_NOT_FOUND,
                    sender |-> "resolve_order" ]
    ELSE IF state.email # None
    THEN LET candidates == search_orders(state.email)
         IN  IF Len(candidates) = 0
             THEN [ candidate_orders |-> candidates,
                    draft_scenario |-> NO_ORDERS_FOUND,
                    sender |-> "resolve_order" ]
             ELSE IF Len(candidates) = 1
             THEN [ order_id |-> candidates[1].order_id,
                    order_details |-> candidates[1],
                    candidate_orders |-> candidates,
                    draft_scenario |-> REPLY,
                    sender |-> "resolve_order" ]
             ELSE [ candidate_orders |-> candidates,
                    draft_scenario |-> CONFIRM_ORDER,
                    sender |-> "resolve_order" ]
    ELSE [ draft_scenario |-> NEED_IDENTIFIER,
           sender |-> "resolve_order" ]

prepare_action(state) ==
    [ suggested_action |-> [ issue_type |-> state.issue_type,
                             order_id |-> state.order_id,
                             policy |-> None ],
      review_status |-> PENDING,
      sender |-> "prepare_action" ]

\* retrieved: what query_policies gave (the empty list also when it raised)
\* what query_policies (with rerank_with_llm) does when kb_orchestrator calls
\* it: it raises, or it returns a list of citations, possibly empty
NoCitations == [raised |-> FALSE, citations |-> << >>]
Retrievals ==
    { [raised |-> TRUE, citations |-> << >>],
      NoCitations,
      [raised |-> FALSE, citations |-> << "refund_policy" >>] }

RetrievalLabel(retrieved) ==
    IF retrieved.raised THEN "retrieval_raised"
    ELSE IF retrieved.citations = << >> THEN "no_citations"
    ELSE "citations"

kb_orchestrator(state, retrieved) ==
    IF state.draft_scenario # REPLY
    THEN [ policy_citations |-> << >>, sender |-> "kb_orchestrator" ]
    ELSE [ policy_citations |-> IF retrieved.raised THEN << >> ELSE retrieved.citations,
           sender |-> "kb_orchestrator" ]

\* mutant: without citations policy_evaluator writes no evaluation note
policy_evaluator_no_note(state) == [ sender |-> "policy_evaluator" ]

policy_evaluator(state) ==
    LET citations == IF "policy_citations" \in DOMAIN state
                     THEN state.policy_citations ELSE << >>
    IN  IF Len(citations) = 0
        THEN [ policy_evaluation |-> "no_citations",
               applied_policies |-> << >>,
               sender |-> "policy_evaluator" ]
        ELSE [ suggested_action |-> [state.suggested_action EXCEPT !.policy = citations[1]],
               policy_evaluation |-> "evaluated",
               applied_policies |-> citations,
               sender |-> "policy_evaluator" ]

_coerce_draft_scenario(value) == IF value \in DraftScenario THEN value ELSE REPLY
_coerce_review_status(value) == IF value \in ReviewStatus THEN value ELSE None

\* mutant: the unknown-issue phase is never picked
DraftPhase_no_unknown(state) ==
    IF _coerce_draft_scenario(state.draft_scenario) # REPLY THEN "non_reply"
    ELSE IF _coerce_review_status(state.review_status) \in {PENDING, None} THEN "pending"
    ELSE IF _coerce_review_status(state.review_status) = APPROVED THEN "approved"
    ELSE "rejected"

\* mutant: once the admin left feedback the rejected phase is picked
DraftPhase_by_feedback(state) ==
    IF _coerce_draft_scenario(state.draft_scenario) # REPLY THEN "non_reply"
    ELSE IF state.issue_type = None \/ state.issue_type = "unknown" THEN "unknown"
    ELSE IF state.admin_feedback # None THEN "rejected"
    ELSE IF _coerce_review_status(state.review_status) \in {PENDING, None} THEN "pending"
    ELSE IF _coerce_review_status(state.review_status) = APPROVED THEN "approved"
    ELSE "rejected"

\* the phase draft_reply picks
DraftPhase(state) ==
    IF _coerce_draft_scenario(state.draft_scenario) # REPLY THEN "non_reply"
    ELSE IF state.issue_type = None \/ state.issue_type = "unknown" THEN "unknown"
    ELSE IF _coerce_review_status(state.review_status) \in {PENDING, None} THEN "pending"
    ELSE IF _coerce_review_status(state.review_status) = APPROVED THEN "approved"
    ELSE "rejected"

\* the text the text-generation service returns for a prompt; the prompt is
\* chosen by scenario and phase, the model keeps which prompt it answers
generate_draft_with_llm(scenario, phase) ==
    IF scenario = REPLY THEN phase ELSE scenario

\* mutant: outside the REPLY scenario review_status is left as it is
draft_reply_keeps_review_status(state) ==
    LET scenario == _coerce_draft_scenario(state.draft_scenario)
        phase == DraftPhase(state)
        draft == generate_draft_with_llm(scenario, phase)
    IN  CASE phase = "unknown" ->
               [ draft_reply |-> draft,
                 draft_scenario |-> NEED_IDENTIFIER,
                 messages |-> << AIMessage(draft) >>,
                 review_status |-> None,
                 sender |-> "draft_reply" ]
          [] phase \in {"pending", "approved", "rejected"} ->
               [ draft_reply |-> draft,
                 messages |-> << AIMessage(draft) >>,
                 review_status |-> phase,
                 sender |-> "draft_reply" ]
          [] OTHER ->
               [ draft_reply |-> draft,
                 messages |-> << AIMessage(draft) >>,
                 sender |-> "draft_reply" ]

draft_reply(state) ==
    LET scenario == _coerce_draft_scenario(state.draft_scenario)
        phase == DraftPhase(state)
        draft == generate_draft_with_llm(scenario, phase)
    IN  CASE phase = "unknown" ->
               [ draft_reply |-> draft,
                 draft_scenario |-> NEED_IDENTIFIER,
                 messages |-> << AIMessage(draft) >>,
                 review_status |-> None,
                 sender |-> "draft_reply" ]
          [] phase = "pending" ->
               [ draft_reply |-> draft,
                 messages |-> << AIMessage(draft) >>,
                 review_status |-> PENDING,
                 sender |-> "draft_reply" ]
          [] phase = "approved" ->
               [ draft_reply |-> draft,
                 messages |-> << AIMessage(draft) >>,
                 review_status |-> APPROVED,
                 sender |-> "draft_reply" ]
          [] phase = "rejected" ->
               [ draft_reply |-> draft,
                 messages |-> << AIMessage(draft) >>,
                 review_status |-> REJECTED,
                 sender |-> "draft_reply" ]
          [] OTHER ->
               [ draft_reply |-> draft,
                 messages |-> << AIMessage(draft) >>,
                 review_status |-> None,
                 sender |-> "draft_reply" ]

admin_review(state) == [ sender |-> "admin_review" ]

finalize(state) ==
    [ messages |-> << FinalMessage(state.draft_reply) >>,
      sender |-> "finalize" ]

\* ---------------------------------------------------------------- routing
\* mutant: the DRAFT route not honoured
route_after_ingest_no_draft(state) ==
    IF state.route_path = RESOLVE THEN "resolve_order" ELSE "classify_issue"

route_after_ingest(state) ==
    IF state.route_path \in {FULL, RECLASSIFY} THEN "classify_issue"
    ELSE IF state.route_path = RESOLVE THEN "resolve_order"
    ELSE "draft_reply"

\* mutant: the scenario is not looked at
route_after_draft_any_scenario(state) ==
    IF state.review_status \in {APPROVED, REJECTED} THEN "finalize" ELSE "admin_review"

route_after_draft(state) ==
    IF state.draft_scenario = REPLY
    THEN IF state.review_status \in {APPROVED, REJECTED} THEN "finalize"
         ELSE "admin_review"
    ELSE END

route_to_rag(state) ==
    IF state.draft_scenario = REPLY THEN "kb_orchestrator" ELSE "draft_reply"

route_after_admin_review(state) == "draft_reply"

\* mutant: a RECLASSIFY turn goes from classify_issue past resolve_order
NextNode_reclassify_only(node, state) ==
    CASE node = START -> "ingest"
      [] node = "ingest" -> route_after_ingest(state)
      [] node = "classify_issue" ->
            IF state.route_path = RECLASSIFY THEN "prepare_action"
            ELSE "resolve_order"
      [] node = "resolve_order" -> "prepare_action"
      [] node = "prepare_action" -> route_to_rag(state)
      [] node = "kb_orchestrator" -> "policy_evaluator"
      [] node = "policy_evaluator" -> "draft_reply"
      [] node = "draft_reply" -> route_after_draft(state)
      [] node = "admin_review" -> route_after_admin_review(state)
      [] node = "finalize" -> END

\* create_graph: the node that follows `node` on the values `state`
NextNode(node, state) ==
    CASE node = START -> "ingest"
      [] node = "ingest" -> route_after_ingest(state)
      [] node = "classify_issue" -> "resolve_order"
      [] node = "resolve_order" -> "prepare_action"
      [] node = "prepare_action" -> route_to_rag(state)
      [] node = "kb_orchestrator" -> "policy_evaluator"
      [] node = "policy_evaluator" -> "draft_reply"
      [] node = "draft_reply" -> route_after_draft(state)
      [] node = "admin_review" -> route_after_admin_review(state)
      [] node = "finalize" -> END

\* ---------------------------------------------------------------- variables
THREAD == "t1"
Execs == {1}
ConcExecs == {1, 2}
Feedbacks == {"note"}

VARIABLES ckpt, pending_tickets, run, requests, failures, decision, classify

vars == << ckpt, pending_tickets, run, requests, failures, decision, classify >>

\* ckpt: the checkpointer's latest entry for the thread
\*   exists  a checkpoint was ever written
\*   values  the state values
\*   next    the node the engine runs next (END: nothing left to run)
\*   last    the node whose write is the newest (START: the graph input)
\*   failed  the run of `next` raised
NoCheckpoint ==
    [exists |-> FALSE, values |-> EmptyState, next |-> END, last |-> START,
     failed |-> FALSE]

\* run[e]: one request being served
\*   pc      "idle", a node name (that node runs next), "resume" (state
\*           updated, invoke(None) not yet called), "done" (invoke returned),
\*           "error" (invoke raised)
\*   vals    the values this execution works on
\*   kind, text, order_id, status: the request; trace: the nodes it ran, in
\*   order, with the phase draft_reply ran in and what the retrieval
\*   kb_orchestrator made came to; pre: the checkpoint when the
\*   request came in; outcome: how it ended; retry_of: for a user turn that
\*   repeats the failed user turn just before it, the checkpoint and the
\*   order_id that turn started with
NoRetry == [is_retry |-> FALSE, pre |-> [exists |-> FALSE, values |-> EmptyState,
                                         next |-> END, last |-> START,
                                         failed |-> FALSE],
            order_id |-> None]

IdleRun ==
    [pc |-> "idle", kind |-> None, text |-> << >>, order_id |-> None,
     status |-> None, vals |-> EmptyState, trace |-> << >>,
     pre |-> NoCheckpoint, outcome |-> None, retry_of |-> NoRetry]

\* decision: what became of the last APPROVED / REJECTED decision submitted
\*   "none" no such decision yet, "fresh" submitted and not yet drafted,
\*   "drafted" draft_reply wrote its approved / rejected message once,
\*   "redrafted" draft_reply wrote such a message again

\* classify: one call of classify_issue on its own: the rule table
\* load_issues returned, the ticket text, and the issue_type returned (None
\* while the call has not been made)
NoCall == [issues |-> << >>, ticket_text |-> << >>, issue_type |-> None]

Init ==
    /\ ckpt = NoCheckpoint
    /\ pending_tickets = {}
    /\ run = [e \in ConcExecs |-> IdleRun]
    /\ requests = 0
    /\ decision = "none"
    /\ failures = 0
    /\ classify = NoCall

\* ---------------------------------------------------------------- engine
\* One step of hitl_graph: the node's update is merged, the outgoing edge is
\* evaluated on the merged values, the checkpoint is written, and the run
\* stops when nothing follows or when the next node is an interrupt point.
Stops(nxt) == nxt = END \/ nxt \in hitl_interrupt_before

RunNode(e, node, phase, update) ==
    LET vals == ApplyUpdate(run[e].vals, update)
        nxt == NextNode(node, vals)
    IN  /\ run[e].pc = node
        /\ ckpt' = [exists |-> TRUE, values |-> vals, next |-> nxt,
                    last |-> node, failed |-> FALSE]
        /\ run' = [run EXCEPT ![e].vals = vals,
                              ![e].trace = Append(@, [node |-> node, phase |-> phase]),
                              ![e].pc = IF Stops(nxt) THEN "done" ELSE nxt]
        /\ decision' = IF phase \in {"approved", "rejected"}
                       THEN (IF decision = "fresh" THEN "drafted" ELSE "redrafted")
                       ELSE decision
        /\ UNCHANGED << pending_tickets, requests, failures, classify >>

\* the node's update, by node name
NodeUpdate(node, state) ==
    CASE node = "ingest" -> ingest(state)
      [] node = "classify_issue" -> classify_issue(state)
      [] node = "resolve_order" -> resolve_order(state)
      [] node = "prepare_action" -> prepare_action(state)
      [] node = "kb_orchestrator" -> kb_orchestrator(state, NoCitations)
      [] node = "policy_evaluator" -> policy_evaluator(state)
      [] node = "draft_reply" -> draft_reply(state)
      [] node = "admin_review" -> admin_review(state)
      [] node = "finalize" -> finalize(state)

\* hitl_graph.invoke when no node raises: the values it returns
RECURSIVE InvokeFrom(_, _)
InvokeFrom(state, node) ==
    LET vals == ApplyUpdate(state, NodeUpdate(node, state))
        nxt == NextNode(node, vals)
    IN  IF Stops(nxt) THEN vals ELSE InvokeFrom(vals, nxt)

\* existing_state.values and existing_state.values.get("ticket_text")
IsFollowUp(ck) == ck.exists /\ ck.values.ticket_text # << >>

\* the values after the request's input_state is written
TriageInput(ck, text, order_id) ==
    ApplyUpdate(ck.values,
                IF IsFollowUp(ck)
                THEN [ticket_text |-> text]
                ELSE [EmptyState EXCEPT !.ticket_text = text, !.order_id = order_id])

\* triage_invoke_langgraph up to the start of the graph run
TriageInvoke(e, text, order_id) ==
    LET follow_up == IsFollowUp(ckpt)
        vals == TriageInput(ckpt, text, order_id)
    IN  /\ run[e].pc = "idle"
        /\ requests' = requests + 1
        /\ ckpt' = [exists |-> TRUE, values |-> vals, next |-> "ingest",
                    last |-> START, failed |-> FALSE]
        /\ run' = [run EXCEPT ![e] =
                     [pc |-> "ingest", kind |-> "user", text |-> text,
                      order_id |-> IF follow_up THEN None ELSE order_id,
                      status |-> None, vals |-> vals, trace |-> << >>,
                      pre |-> ckpt, outcome |-> None,
                      retry_of |->
                        IF /\ run[e].kind = "user"
                           /\ run[e].outcome = "error"
                           /\ run[e].text = text
                           /\ follow_up
                        THEN [is_retry |-> TRUE, pre |-> run[e].pre,
                              order_id |-> run[e].order_id]
                        ELSE NoRetry]]
        /\ UNCHANGED << pending_tickets, failures, decision, classify >>

Ingest(e) == RunNode(e, "ingest", None, ingest(run[e].vals))

ClassifyIssue(e) == RunNode(e, "classify_issue", None, classify_issue(run[e].vals))

ResolveOrder(e) == RunNode(e, "resolve_order", None, resolve_order(run[e].vals))

PrepareAction(e) == RunNode(e, "prepare_action", None, prepare_action(run[e].vals))

KbOrchestratorWith(e, retrieved) ==
    RunNode(e, "kb_orchestrator", RetrievalLabel(retrieved),
            kb_orchestrator(run[e].vals, retrieved))

KbOrchestrator(e) == \E retrieved \in Retrievals : KbOrchestratorWith(e, retrieved)

PolicyEvaluator(e) == RunNode(e, "policy_evaluator", None, policy_evaluator(run[e].vals))

DraftReply(e) == RunNode(e, "draft_reply", DraftPhase(run[e].vals), draft_reply(run[e].vals))

\* get_llm().invoke raises inside generate_draft_with_llm: draft_reply returns
\* nothing, invoke raises, the checkpoint of the previous node stays
DraftReplyRaises(e) ==
    /\ run[e].pc = "draft_reply"
    /\ failures < MaxFailures
    /\ failures' = failures + 1
    /\ ckpt' = IF ckpt.values = run[e].vals /\ ckpt.next = "draft_reply"
               THEN [ckpt EXCEPT !.failed = TRUE] ELSE ckpt
    /\ run' = [run EXCEPT ![e].pc = "error"]
    /\ UNCHANGED << pending_tickets, requests, decision, classify >>

AdminReview(e) == RunNode(e, "admin_review", None, admin_review(run[e].vals))

Finalize(e) == RunNode(e, "finalize", None, finalize(run[e].vals))

\* admin_review_endpoint, hitl_graph.update_state(config, {review_status,
\* admin_feedback}): written as the node that ran last
AdminUpdateState(e, status, feedback) ==
    LET as_nodes == IF ~ckpt.exists THEN {START} ELSE {ckpt.last}
        vals == ApplyUpdate(ckpt.values,
                            [review_status |-> status, admin_feedback |-> feedback])
    IN  /\ run[e].pc = "idle"
        /\ requests' = requests + 1
        /\ \E as_node \in as_nodes :
             ckpt' = [exists |-> TRUE, values |-> vals,
                      next |-> NextNode(as_node, vals), last |-> as_node,
                      failed |-> FALSE]
        /\ run' = [run EXCEPT ![e] =
                     [pc |-> "resume", kind |-> "admin", text |-> << >>,
                      order_id |-> None, status |-> status, vals |-> vals,
                      trace |-> << >>, pre |-> ckpt, outcome |-> None,
                      retry_of |-> NoRetry]]
        /\ decision' = IF status \in {APPROVED, REJECTED} THEN "fresh" ELSE decision
        /\ UNCHANGED << pending_tickets, failures, classify >>

\* admin_review_endpoint, hitl_graph.invoke(None, config): continue with the
\* checkpoint's next node
AdminInvoke(e) ==
    /\ run[e].pc = "resume"
    /\ run' = [run EXCEPT ![e].vals = ckpt.values,
                          ![e].pc = IF ckpt.next = END THEN "done" ELSE ckpt.next]
    /\ UNCHANGED << ckpt, pending_tickets, requests, failures, decision, classify >>

\* triage_invoke_langgraph after invoke returned
TriageReturn(e) ==
    /\ run[e].pc = "done"
    /\ run[e].kind = "user"
    /\ pending_tickets' =
         IF run[e].vals.draft_scenario = REPLY /\ run[e].vals.review_status = PENDING
         THEN pending_tickets \cup {THREAD} ELSE pending_tickets
    /\ run' = [run EXCEPT ![e].pc = "idle", ![e].outcome = "ok"]
    /\ UNCHANGED << ckpt, requests, failures, decision, classify >>

\* admin_review_endpoint after invoke returned
AdminReturn(e) ==
    /\ run[e].pc = "done"
    /\ run[e].kind = "admin"
    /\ pending_tickets' =
         IF run[e].status \in {APPROVED, REJECTED}
         THEN pending_tickets \ {THREAD} ELSE pending_tickets
    /\ run' = [run EXCEPT ![e].pc = "idle", ![e].outcome = "ok"]
    /\ UNCHANGED << ckpt, requests, failures, decision, classify >>

\* the except clause of either endpoint: HTTP 500
RaiseHTTP500(e) ==
    /\ run[e].pc = "error"
    /\ run' = [run EXCEPT ![e].pc = "idle", ![e].outcome = "error"]
    /\ UNCHANGED << ckpt, pending_tickets, requests, failures, decision, classify >>

Serve(e) ==
    \/ Ingest(e)
    \/ ClassifyIssue(e)
    \/ ResolveOrder(e)
    \/ PrepareAction(e)
    \/ KbOrchestrator(e)
    \/ PolicyEvaluator(e)
    \/ DraftReply(e)
    \/ DraftReplyRaises(e)
    \/ AdminReview(e)
    \/ Finalize(e)
    \/ AdminInvoke(e)
    \/ TriageReturn(e)
    \/ AdminReturn(e)
    \/ RaiseHTTP500(e)

\* requests served one after the other
Next ==
    \E e \in Execs :
        \/ /\ requests < MaxRequests
           /\ \E text \in Texts, order_id \in RequestOrderIds : TriageInvoke(e, text, order_id)
        \/ /\ requests < MaxRequests
           /\ \E status \in ReviewStatus, feedback \in Feedbacks : AdminUpdateState(e, status, feedback)
        \/ Serve(e)

Spec == Init /\ [][Next]_vars

\* two requests for the thread may be in flight at once (the endpoints are
\* plain functions run on the server's thread pool; nothing serialises them)
NextConc ==
    \E e \in ConcExecs :
        \/ /\ requests < MaxConcRequests
           /\ \E text \in ConcTexts : TriageInvoke(e, text, None)
        \/ /\ requests < MaxConcRequests
           /\ \E status \in {APPROVED, PENDING} : AdminUpdateState(e, status, "note")
        \/ Serve(e)

SpecConc == Init /\ [][NextConc]_vars

\* the status values a review request body may carry: the members of
\* ReviewStatus and the REQUEST_CHANGES the endpoint's documentation names
REQUEST_CHANGES == "request_changes"
SubmittedStatuses == ReviewStatus \cup {REQUEST_CHANGES}

\* POST /admin/review with a status that is no member of ReviewStatus: the
\* body fails validation (ReviewAction.status), the request is answered 422
\* and admin_review_endpoint never runs
AdminReviewInvalid(e, status) ==
    /\ run[e].pc = "idle"
    /\ status \notin ReviewStatus
    /\ requests' = requests + 1
    /\ run' = [run EXCEPT ![e] =
                 [pc |-> "idle", kind |-> "admin", text |-> << >>,
                  order_id |-> None, status |-> status, vals |-> ckpt.values,
                  trace |-> << >>, pre |-> ckpt, outcome |-> "invalid",
                  retry_of |-> NoRetry]]
    /\ UNCHANGED << ckpt, pending_tickets, failures, decision, classify >>

\* the server process stops and is started again: the module is loaded
\* anew, pending_tickets is an empty dict and checkpointer a new MemorySaver;
\* the requests that were being served are gone
Restart ==
    /\ ckpt.exists
    /\ ckpt' = NoCheckpoint
    /\ pending_tickets' = {}
    /\ run' = [e \in ConcExecs |-> IdleRun]
    /\ UNCHANGED << requests, failures, decision, classify >>

\* a longer conversation, requests served one after the other
LongTexts == { << >>, << "refund" >> }

NextLong ==
    \E e \in Execs :
        \/ /\ requests < MaxLongRequests
           /\ \E text \in LongTexts, order_id \in RequestOrderIds : TriageInvoke(e, text, order_id)
        \/ /\ requests < MaxLongRequests
           /\ \E status \in ReviewStatus : AdminUpdateState(e, status, "note")
        \/ /\ requests < MaxLongRequests
           /\ \E status \in SubmittedStatuses : AdminReviewInvalid(e, status)
        \/ Serve(e)
        \/ Restart

SpecLong == Init /\ [][NextLong]_vars

\* classify_issue called on any rule table and any ticket text
InitClassify ==
    /\ ckpt = NoCheckpoint
    /\ pending_tickets = {}
    /\ run = [e \in ConcExecs |-> IdleRun]
    /\ requests = 0
    /\ decision = "none"
    /\ failures = 0
    /\ classify \in [issues : RuleTables, ticket_text : ClassifyTexts, issue_type : {None}]

ClassifyCall ==
    /\ classify.issue_type = None
    /\ classify' = [classify EXCEPT
                      !.issue_type = ClassifyWith(classify.issues, classify.ticket_text)]
    /\ UNCHANGED << ckpt, pending_tickets, run, requests, failures, decision >>

NextClassify == ClassifyCall

SpecClassify == InitClassify /\ [][NextClassify]_vars

\* ------------------------------------------------- the graph of the tests
\* workflow.graph = compile_graph(): no checkpointer and no interrupt point
\* (interrupt_before None becomes []); graph.invoke(initial_state) runs
\* nodes until END, and the engine raises GraphRecursionError when the run
\* has made recursion_limit steps (25 when the caller's config gives none)
\* without reaching END
default_interrupt_before == {}
RecursionLimit == 25

PlainTexts == Texts \cup ConcTexts

\* graph.invoke(initial_state) as the stage-2 tests call it
PlainInvoke(e, text, order_id) ==
    /\ run[e].pc = "idle"
    /\ run' = [run EXCEPT ![e] =
                 [pc |-> "ingest", kind |-> "plain", text |-> text,
                  order_id |-> order_id, status |-> None,
                  vals |-> [EmptyState EXCEPT !.ticket_text = text,
                                              !.order_id = order_id,
                                              !.review_status = PENDING],
                  trace |-> << >>, pre |-> NoCheckpoint, outcome |-> None,
                  retry_of |-> NoRetry]]
    /\ requests' = requests + 1
    /\ UNCHANGED << ckpt, pending_tickets, failures, decision, classify >>

\* one step of the run: the node at pc runs and its edge is followed
PlainStep(e) ==
    LET node == run[e].pc
        vals == ApplyUpdate(run[e].vals, NodeUpdate(node, run[e].vals))
        nxt == NextNode(node, vals)
    IN  /\ run[e].kind = "plain"
        /\ node \in Nodes
        /\ Len(run[e].trace) < RecursionLimit
        /\ run' = [run EXCEPT ![e].vals = vals,
                              ![e].trace = Append(@, [node |-> node, phase |-> None]),
                              ![e].pc = IF nxt = END \/ nxt \in default_interrupt_before
                                        THEN "done" ELSE nxt]
        /\ UNCHANGED << ckpt, pending_tickets, requests, failures, decision, classify >>

\* the step limit is reached with a node still to run: GraphRecursionError
PlainRecursionError(e) ==
    /\ run[e].kind = "plain"
    /\ run[e].pc \in Nodes
    /\ Len(run[e].trace) >= RecursionLimit
    /\ run' = [run EXCEPT ![e].pc = "error"]
    /\ UNCHANGED << ckpt, pending_tickets, requests, failures, decision, classify >>

\* invoke returns the values, or the exception reaches the caller
PlainReturn(e) ==
    /\ run[e].kind = "plain"
    /\ run[e].pc \in {"done", "error"}
    /\ run' = [run EXCEPT ![e].pc = "idle",
                          ![e].outcome = IF run[e].pc = "done" THEN "ok" ELSE "error"]
    /\ UNCHANGED << ckpt, pending_tickets, requests, failures, decision, classify >>

NextPlain ==
    \E e \in Execs :
        \/ /\ requests < MaxPlainRequests
           /\ \E text \in PlainTexts, order_id \in RequestOrderIds : PlainInvoke(e, text, order_id)
        \/ PlainStep(e)
        \/ PlainRecursionError(e)
        \/ PlainReturn(e)

SpecPlain == Init /\ [][NextPlain]_vars

\* ---------------------------------------------------------------- properties
HasNode(trace, node) == \E i \in 1..Len(trace) : trace[i].node = node
HasPhase(trace, phase) == \E i \in 1..Len(trace) : trace[i].phase = phase
NodesOf(trace) == [i \in 1..Len(trace) |-> trace[i].node]
Suspended(ck) == ck.exists /\ ck.next = "admin_review"
HumanCount(messages) == Cardinality({i \in 1..Len(messages) : messages[i].role = "human"})

\* C1: a user turn in which draft_reply ran in the pending phase returns with
\* the thread suspended right before admin_review and review_status PENDING,
\* and no turn started by ticket text runs admin_review.
C1_PendingDraftSuspends ==
    \A e \in ConcExecs :
        run[e].kind = "user" =>
            /\ ~HasNode(run[e].trace, "admin_review")
            /\ (run[e].pc = "done" /\ HasPhase(run[e].trace, "pending")) =>
                 /\ run[e].trace[Len(run[e].trace)].phase = "pending"
                 /\ Suspended(ckpt)
                 /\ ckpt.values.review_status = PENDING
                 /\ run[e].vals.review_status = PENDING

C1_Witness ==
    /\ run[1].kind = "user"
    /\ run[1].pc = "done"
    /\ HasPhase(run[1].trace, "pending")

\* a decision APPROVED / REJECTED on a thread suspended before admin_review,
\* served to the end
DecidedOnSuspended(e) ==
    /\ run[e].kind = "admin"
    /\ run[e].status \in {APPROVED, REJECTED}
    /\ Suspended(run[e].pre)
    /\ run[e].pc = "done"

\* C2: APPROVED / REJECTED on a suspended thread runs admin_review, then
\* draft_reply once in the approved / rejected phase, then finalize, and ends
\* not suspended with review_status equal to the decision.
C2_DecisionRunsReviewDraftFinalize ==
    \A e \in ConcExecs :
        DecidedOnSuspended(e) =>
            /\ NodesOf(run[e].trace) = << "admin_review", "draft_reply", "finalize" >>
            /\ run[e].trace[2].phase = run[e].status
            /\ ckpt.next = END
            /\ run[e].vals.review_status = run[e].status

\* C3: after the decision was served the transcript is exactly one message
\* longer than at suspension, and that message is the approved / rejected
\* message.
C3_OneApprovedOrRejectedMessage ==
    \A e \in ConcExecs :
        DecidedOnSuspended(e) =>
            LET before == run[e].pre.values.messages
                after == ckpt.values.messages
            IN  /\ Len(after) = Len(before) + 1
                /\ after[Len(after)].draft = run[e].status

\* C4: a decision on a thread that is not suspended before admin_review is
\* refused with an error and leaves the stored state as it was.
C4_DecisionWithoutPendingReviewRefused ==
    \A e \in ConcExecs :
        (run[e].kind = "admin" /\ ~Suspended(run[e].pre)) =>
            /\ ckpt = run[e].pre
            /\ run[e].outcome # "ok"

\* C5: once draft_reply has written the approved / rejected message of a
\* decision, it writes no further such message until a new decision comes.
C5_DecisionConsumedOnce == decision # "redrafted"

\* C6: when the text generation raises in draft_reply, the stored state after
\* the failed request is the stored state before it.
C6_FailedTurnCommitsNothing ==
    \A e \in ConcExecs :
        (run[e].pc = "error" \/ run[e].outcome = "error") =>
            ckpt.values = run[e].pre.values

\* C7: a user turn repeated after it failed ends in the state that one
\* successful execution of that turn would have reached.
C7_RetryEqualsOneExecution ==
    \A e \in ConcExecs :
        (run[e].retry_of.is_retry /\ run[e].pc = "done") =>
            ckpt.values =
                InvokeFrom(TriageInput(run[e].retry_of.pre, run[e].text,
                                       run[e].retry_of.order_id), "ingest")

\* C8: requests for one thread do not overlap, so that after two user turns
\* were served the transcript holds the user message of both.
C8_NoOverlapNoLostUpdate ==
    /\ ~(run[1].pc # "idle" /\ run[2].pc # "idle")
    /\ (\A e \in ConcExecs : run[e].kind = "user" /\ run[e].outcome = "ok")
         => HumanCount(ckpt.values.messages) >= 2

\* C9: the route ingest writes depends only on needs_issue and needs_order of
\* the state it is given: both FULL, only needs_order RESOLVE, only
\* needs_issue RECLASSIFY, neither DRAFT.
C9_RouteTable ==
    [][ \A e \in ConcExecs :
          Ingest(e) =>
            run'[e].vals.route_path =
              CASE needs_issue(run[e].vals) /\ needs_order(run[e].vals) -> FULL
                [] ~needs_issue(run[e].vals) /\ needs_order(run[e].vals) -> RESOLVE
                [] needs_issue(run[e].vals) /\ ~needs_order(run[e].vals) -> RECLASSIFY
                [] ~needs_issue(run[e].vals) /\ ~needs_order(run[e].vals) -> DRAFT ]_vars

C9_Witness ==
    /\ Len(run[1].trace) > 0
    /\ run[1].trace[1].node = "ingest"
    /\ run[1].vals.route_path = DRAFT

\* a turn whose ingest chose the DRAFT route
RoutedDraft(e) ==
    /\ Len(run[e].trace) > 0
    /\ run[e].trace[1].node = "ingest"
    /\ run[e].vals.route_path = DRAFT

\* C10: in a turn routed DRAFT neither classify_issue nor resolve_order nor
\* prepare_action runs, and issue_type, order_id, email, order_details and
\* suggested_action stay as they were when the turn started.
C10_DraftRouteRepeatsNoWork ==
    \A e \in ConcExecs :
        RoutedDraft(e) =>
            /\ ~HasNode(run[e].trace, "classify_issue")
            /\ ~HasNode(run[e].trace, "resolve_order")
            /\ ~HasNode(run[e].trace, "prepare_action")
            /\ \A k \in {"issue_type", "order_id", "email", "order_details",
                         "suggested_action"} :
                 /\ ckpt.values[k] = run[e].pre.values[k]
                 /\ run[e].vals[k] = run[e].pre.values[k]

C10_Witness == RoutedDraft(1) /\ run[1].pc = "done"

\* the order id a turn supplies: the one in the ticket text, else the one in
\* the request's order_id field
SuppliedOrderId(e) ==
    IF extract_order_id(run[e].text) # None
    THEN extract_order_id(run[e].text)
    ELSE run[e].order_id

\* a served user turn on a thread with a resolved order that supplies a
\* different valid order id
DifferentOrderSupplied(e) ==
    /\ run[e].kind = "user"
    /\ run[e].pc = "done"
    /\ run[e].pre.values.order_details # NoOrder
    /\ SuppliedOrderId(e) # None
    /\ fetch_order(SuppliedOrderId(e)) # NoOrder
    /\ SuppliedOrderId(e) # run[e].pre.values.order_id

\* C11: on a thread with a resolved order, a turn that supplies a different
\* valid order id runs classification and resolution again and ends with
\* order_id and order_details of the new order.
C11_FreshStartOnNewOrderId ==
    \A e \in ConcExecs :
        DifferentOrderSupplied(e) =>
            /\ HasNode(run[e].trace, "classify_issue")
            /\ HasNode(run[e].trace, "resolve_order")
            /\ ckpt.values.order_id = SuppliedOrderId(e)
            /\ ckpt.values.order_details = fetch_order(SuppliedOrderId(e))

\* C12: a user turn on an existing thread never resets context: issue_type
\* and order_details of the earlier turns are what ingest is given, and
\* order_id and email, once set, keep their value unless the turn supplies a
\* replacement.
C12_FollowUpKeepsContext ==
    \A e \in ConcExecs :
        (run[e].kind = "user" /\ run[e].pre.exists) =>
            /\ run[e].pc = "ingest" =>
                 /\ run[e].vals.issue_type = run[e].pre.values.issue_type
                 /\ run[e].vals.order_details = run[e].pre.values.order_details
            /\ run[e].pre.values.order_id # None =>
                 run[e].vals.order_id \in
                   {run[e].pre.values.order_id, SuppliedOrderId(e)}
            /\ run[e].pre.values.email # None =>
                 run[e].vals.email \in
                   {run[e].pre.values.email, extract_email(run[e].text)}

\* positions in the order table of the orders with that id / of that customer
OrdersWithId(order_id) == {i \in 1..Len(ORDERS) : ORDERS[i].order_id = order_id}
OrdersWithEmail(email) == {i \in 1..Len(ORDERS) : Lower(ORDERS[i].email) = Lower(email)}

\* C13: resolve_order given an order id looks up by id only: found gives the
\* details of that order and scenario REPLY, not found gives no details and
\* ORDER_NOT_FOUND; given neither id nor email it gives NEED_IDENTIFIER; and on
\* a new thread whose text has no order id the id of the request is the one
\* resolved and returned.
C13_ResolveById ==
    [][ \A e \in ConcExecs :
          /\ (ResolveOrder(e) /\ run[e].vals.order_id # None) =>
               /\ run'[e].vals.order_id = run[e].vals.order_id
               /\ IF OrdersWithId(run[e].vals.order_id) # {}
                  THEN /\ run'[e].vals.order_details.order_id = run[e].vals.order_id
                       /\ \E i \in OrdersWithId(run[e].vals.order_id) :
                            run'[e].vals.order_details = ORDERS[i]
                       /\ run'[e].vals.draft_scenario = REPLY
                  ELSE /\ run'[e].vals.order_details = NoOrder
                       /\ run'[e].vals.draft_scenario = ORDER_NOT_FOUND
          /\ (ResolveOrder(e) /\ run[e].vals.order_id = None
                              /\ run[e].vals.email = None) =>
               run'[e].vals.draft_scenario = NEED_IDENTIFIER
          /\ ( /\ run'[e].kind = "user"
               /\ run'[e].pc = "done"
               /\ ~run'[e].pre.exists
               /\ extract_order_id(run'[e].text) = None
               /\ run'[e].order_id # None ) =>
               /\ run'[e].vals.order_id = run'[e].order_id
               /\ OrdersWithId(run'[e].order_id) # {} =>
                    run'[e].vals.order_details.order_id = run'[e].order_id ]_vars

C13_Witness ==
    /\ run[1].kind = "user"
    /\ run[1].pc = "done"
    /\ ~run[1].pre.exists
    /\ extract_order_id(run[1].text) = None
    /\ run[1].order_id = "ORD1"
    /\ run[1].vals.order_details.order_id = "ORD1"
    /\ run[1].vals.email # None

\* C14: resolve_order given no order id and an email: one matching order
\* gives order_id and details of that order and scenario REPLY; none gives
\* NO_ORDERS_FOUND with order_id unset; two or more give CONFIRM_ORDER, all
\* matches in candidate_orders, and order_id and order_details unset.
C14_ResolveByEmail ==
    [][ \A e \in ConcExecs :
          (ResolveOrder(e) /\ run[e].vals.order_id = None
                           /\ run[e].vals.email # None) =>
            LET hits == OrdersWithEmail(run[e].vals.email)
                after == run'[e].vals
            IN  CASE Cardinality(hits) = 1 ->
                       /\ \E i \in hits : /\ after.order_details = ORDERS[i]
                                          /\ after.order_id = ORDERS[i].order_id
                       /\ after.draft_scenario = REPLY
                  [] Cardinality(hits) = 0 ->
                       /\ after.draft_scenario = NO_ORDERS_FOUND
                       /\ after.order_id = None
                  [] OTHER ->
                       /\ after.draft_scenario = CONFIRM_ORDER
                       /\ Len(after.candidate_orders) = Cardinality(hits)
                       /\ \A i \in hits :
                            \E j \in 1..Len(after.candidate_orders) :
                              after.candidate_orders[j] = ORDERS[i]
                       /\ after.order_id = None
                       /\ after.order_details = NoOrder ]_vars

C14_Witness ==
    /\ run[1].pc = "prepare_action"
    /\ run[1].vals.draft_scenario = CONFIRM_ORDER
    /\ Len(run[1].vals.candidate_orders) = 2
    /\ run[1].vals.order_id = None

\* a request has been served to its end and the thread is at rest
TurnEnded(e) == run[e].pc = "done"

\* C15: at the end of every turn, a non-empty candidate_orders goes with
\* scenario CONFIRM_ORDER, NO_ORDERS_FOUND or REPLY.
C15_CandidatesImplyScenario ==
    \A e \in ConcExecs :
        (TurnEnded(e) /\ ckpt.values.candidate_orders # << >>) =>
            ckpt.values.draft_scenario \in {CONFIRM_ORDER, NO_ORDERS_FOUND, REPLY}

\* C16 as stated: a non-empty candidate_orders has at least two entries.
C16_CandidatesAtLeastTwo ==
    ckpt.values.candidate_orders # << >> => Len(ckpt.values.candidate_orders) >= 2

\* the addresses that occur in ticket texts
KnownEmails == {"a@x.com", "b@x.com", "c@x.com"}

\* C16 (amended): candidate_orders is populated only by an email search that
\* found something: a non-empty candidate_orders is the complete list of the
\* orders of one customer, be it one order or several.
C16_CandidatesAreOneCustomersOrders ==
    ckpt.values.candidate_orders # << >> =>
        \E email \in KnownEmails :
            /\ OrdersWithEmail(email) # {}
            /\ Len(ckpt.values.candidate_orders) = Cardinality(OrdersWithEmail(email))
            /\ \A i \in OrdersWithEmail(email) :
                 \E j \in 1..Len(ckpt.values.candidate_orders) :
                   ckpt.values.candidate_orders[j] = ORDERS[i]

C16_Witness ==
    /\ run[1].pc = "done"
    /\ Len(ckpt.values.candidate_orders) = 1
    /\ ckpt.values.draft_scenario = REPLY

\* C17: only the REPLY scenario suspends: a thread waiting before admin_review
\* has scenario REPLY, and a run whose scenario after draft_reply is another
\* one is not at admin_review.
C17_OnlyReplySuspends ==
    /\ ckpt.next = "admin_review" => ckpt.values.draft_scenario = REPLY
    /\ \A e \in ConcExecs :
         ( /\ Len(run[e].trace) > 0
           /\ run[e].trace[Len(run[e].trace)].node = "draft_reply"
           /\ run[e].vals.draft_scenario # REPLY ) =>
             /\ run[e].pc # "admin_review"
             /\ ckpt.next # "admin_review"

C17_Witness ==
    /\ Suspended(ckpt)
    /\ ckpt.values.draft_scenario = REPLY
    /\ run[1].pc = "idle"
    /\ run[1].kind = "user"

\* C18: prepare_action runs only when the scenario is REPLY, so that after a
\* resolution that ended otherwise suggested_action is not written and
\* review_status is not set to PENDING.
C18_PrepareActionOnlyForReply ==
    [][ \A e \in ConcExecs :
          PrepareAction(e) =>
            \/ run[e].vals.draft_scenario = REPLY
            \/ /\ run'[e].vals.suggested_action = run[e].vals.suggested_action
               /\ run'[e].vals.review_status # PENDING ]_vars

C20_UnknownIssueNeverSuspends ==
    [][ /\ \A e \in ConcExecs :
             ( /\ DraftReply(e)
               /\ _coerce_draft_scenario(run[e].vals.draft_scenario) = REPLY
               /\ run[e].vals.issue_type \in {None, "unknown"} ) =>
                 /\ run'[e].vals.draft_reply = "unknown"
                 /\ run'[e].vals.review_status = None
                 /\ run'[e].pc = "done"
                 /\ ckpt'.next = END
        /\ Suspended(ckpt') => ckpt'.values.issue_type \notin {None, "unknown"} ]_vars

C20_Witness ==
    /\ run[1].pc = "done"
    /\ Len(run[1].trace) > 0
    /\ run[1].trace[Len(run[1].trace)] = [node |-> "draft_reply", phase |-> "unknown"]
    /\ ckpt.values.order_details # NoOrder
    /\ ckpt.next = END

\* C21: when draft_reply runs with scenario REPLY, the phase it drafts in is
\* determined by issue_type and review_status alone: unknown when issue_type
\* is unset or unknown, otherwise pending for PENDING or no status, approved
\* for APPROVED, rejected for REJECTED; the message it appends and the
\* review_status it writes are those of that phase.
C21_PhaseTable(issue_type, review_status) ==
    CASE issue_type \in {None, "unknown"} -> "unknown"
      [] issue_type \notin {None, "unknown"} /\ review_status \in {PENDING, None} -> "pending"
      [] issue_type \notin {None, "unknown"} /\ review_status = APPROVED -> "approved"
      [] issue_type \notin {None, "unknown"} /\ review_status = REJECTED -> "rejected"

C21_PhaseFromIssueAndStatus ==
    [][ \A e \in ConcExecs :
          ( /\ DraftReply(e)
            /\ _coerce_draft_scenario(run[e].vals.draft_scenario) = REPLY ) =>
              LET phase == C21_PhaseTable(run[e].vals.issue_type,
                                          run[e].vals.review_status)
                  msgs == run'[e].vals.messages
              IN  /\ run'[e].trace[Len(run'[e].trace)] =
                       [node |-> "draft_reply", phase |-> phase]
                  /\ Len(msgs) = Len(run[e].vals.messages) + 1
                  /\ msgs[Len(msgs)] = AIMessage(phase)
                  /\ run'[e].vals.draft_reply = phase ]_vars

\* a draft in the approved phase written for a thread that holds feedback,
\* an order and candidates of an earlier turn
C21_Witness ==
    /\ run[1].pc = "done"
    /\ HasPhase(run[1].trace, "approved")
    /\ run[1].vals.admin_feedback # None
    /\ run[1].vals.order_details # NoOrder

\* C22: messages is append-only within a thread: with every step of a user
\* turn or an admin decision the persisted messages keep every message they
\* held, at its position, and never get shorter.
C22_MessagesAppendOnly ==
    [][ /\ Len(ckpt'.values.messages) >= Len(ckpt.values.messages)
        /\ \A i \in 1..Len(ckpt.values.messages) :
               ckpt'.values.messages[i] = ckpt.values.messages[i] ]_vars

\* C23: finalize appends exactly one message, the final marker, changes no
\* other field than messages and sender (review_status included) and ends
\* the turn; a user turn that comes in on the finalized thread starts at
\* ingest with the order_id, issue_type and order_details the thread held.
C23_FinalizeThenNewTurnKeepsContext ==
    [][ /\ \A e \in ConcExecs :
             Finalize(e) =>
               LET old == run[e].vals
                   new == run'[e].vals
               IN  /\ Len(new.messages) = Len(old.messages) + 1
                   /\ SubSeq(new.messages, 1, Len(old.messages)) = old.messages
                   /\ new.messages[Len(new.messages)].final
                   /\ \A k \in DOMAIN old \ {"messages", "sender"} : new[k] = old[k]
                   /\ run'[e].pc = "done"
                   /\ ckpt'.next = END
        /\ \A e \in ConcExecs :
             ( /\ ckpt.last = "finalize"
               /\ \E text \in Texts, order_id \in RequestOrderIds :
                      TriageInvoke(e, text, order_id) ) =>
                 /\ run'[e].pc = "ingest"
                 /\ run'[e].vals.order_id = ckpt.values.order_id
                 /\ run'[e].vals.issue_type = ckpt.values.issue_type
                 /\ run'[e].vals.order_details = ckpt.values.order_details ]_vars

\* C24: a thread suspended before admin_review with review_status PENDING
\* is in the same position after every user turn served while no decision
\* came in, and an APPROVED or REJECTED decision submitted on it afterwards
\* finds work to resume.
C24_SuspendedSurvivesUserTurns ==
    [][ \A e \in Execs :
          /\ ( /\ TriageReturn(e)
               /\ Suspended(run[e].pre)
               /\ run[e].pre.values.review_status = PENDING ) =>
                 /\ Suspended(ckpt')
                 /\ ckpt'.values.review_status = PENDING
          /\ ( /\ Suspended(ckpt)
               /\ \E status \in {APPROVED, REJECTED}, feedback \in Feedbacks :
                      AdminUpdateState(e, status, feedback) ) =>
                 ckpt'.next # END ]_vars

\* C25: a review request whose status is neither APPROVED nor REJECTED
\* (PENDING or REQUEST_CHANGES), submitted on a thread suspended with
\* review_status PENDING, is answered after draft_reply ran again in the
\* pending phase; the thread is suspended before admin_review with
\* review_status PENDING again and is still listed as pending.
C25_OtherDecisionRedrafts ==
    [][ \A e \in Execs :
          ( /\ \/ AdminReturn(e)
               \/ \E status \in SubmittedStatuses : AdminReviewInvalid(e, status)
            /\ run'[e].status \notin {APPROVED, REJECTED}
            /\ Suspended(run'[e].pre)
            /\ run'[e].pre.values.review_status = PENDING ) =>
              /\ HasPhase(run'[e].trace, "pending")
              /\ Suspended(ckpt')
              /\ ckpt'.values.review_status = PENDING
              /\ THREAD \in pending_tickets => THREAD \in pending_tickets' ]_vars

\* C26: when the server process is restarted while the thread is suspended
\* before admin_review, the thread's state and its pending admin_review
\* position are there afterwards and the thread is still listed as pending,
\* so that a decision submitted afterwards finds the suspended thread.
C26_SuspendedSurvivesRestart ==
    [][ ( Restart /\ Suspended(ckpt) ) =>
            /\ Suspended(ckpt')
            /\ ckpt'.values = ckpt.values
            /\ pending_tickets' = pending_tickets ]_vars

\* C27: when the text-generation call fails while draft_reply runs, the turn
\* does not fail: draft_reply appends a fallback message and the run goes on
\* to its suspend point or to the end.
C27_DraftFailureDegrades ==
    [][ \A e \in ConcExecs :
          ( /\ run[e].pc = "draft_reply"
            /\ failures' = failures + 1 ) =>
              /\ run'[e].pc # "error"
              /\ Len(run'[e].vals.messages) = Len(run[e].vals.messages) + 1
              /\ ckpt'.last = "draft_reply"
              /\ Stops(ckpt'.next) ]_vars

C29_CitationsReachEvaluatorAndAction ==
    [][ \A e \in ConcExecs :
          /\ ( \E retrieved \in Retrievals :
                  /\ retrieved.citations # << >>
                  /\ KbOrchestratorWith(e, retrieved) ) =>
                 /\ "policy_citations" \in DOMAIN run'[e].vals
                 /\ run'[e].vals.policy_citations # << >>
          /\ ( /\ DraftReply(e)
               /\ HasPhase(run[e].trace, "citations")
               /\ Suspended(ckpt') ) =>
                 ckpt'.values.suggested_action.policy # None ]_vars

\* the rules of the table whose keyword is contained in the text, and among
\* them those of lowest priority value and, at that priority, longest keyword
C30_Matches(issues, text) ==
    {i \in 1..Len(issues) : KeywordIn(issues[i].keyword, text)}

C30_Best(issues, text) ==
    {i \in C30_Matches(issues, text) :
        \A j \in C30_Matches(issues, text) :
            \/ issues[i].priority < issues[j].priority
            \/ /\ issues[i].priority = issues[j].priority
               /\ KeywordLen(issues[i].keyword) >= KeywordLen(issues[j].keyword)}

\* C30: classify_issue returns unknown exactly when no rule keyword is
\* contained in the lower-cased text; otherwise it returns the issue_type of
\* a matching rule of lowest priority value and, among those, longest
\* keyword; and it returns the same for every ordering of the rule table.
C30_SameForEveryOrdering ==
    classify.issue_type # None =>
        LET issues == classify.issues
            text == classify.ticket_text
        IN  /\ (classify.issue_type = "unknown") <=> (C30_Matches(issues, text) = {})
            /\ C30_Matches(issues, text) # {} =>
                 \E i \in C30_Best(issues, text) :
                     classify.issue_type = issues[i].issue_type
            /\ \A t \in Reorderings(issues) :
                 ClassifyWith(t, text) = classify.issue_type

\* C30 as the code has it: the same, except that among matching rules equal
\* in priority and in keyword length the one that comes first in the rule
\* table wins, so the result is the same for every ordering of the table
\* only when no two matching rules are equal in both.
C30_FirstInTableOnFullTie ==
    classify.issue_type # None =>
        LET issues == classify.issues
            text == classify.ticket_text
            best == C30_Best(issues, text)
        IN  /\ (classify.issue_type = "unknown") <=> (C30_Matches(issues, text) = {})
            /\ C30_Matches(issues, text) # {} =>
                 \E i \in best :
                     /\ \A j \in best : i <= j
                     /\ classify.issue_type = issues[i].issue_type
            /\ Cardinality(best) <= 1 =>
                 \A t \in Reorderings(issues) :
                     ClassifyWith(t, text) = classify.issue_type

\* a call in which two matching rules are equal in priority and in keyword
\* length, and the other order of the table gives the other issue_type
C30_Witness ==
    /\ classify.issue_type # None
    /\ Cardinality(C30_Best(classify.issues, classify.ticket_text)) = 2
    /\ \E t \in Reorderings(classify.issues) :
           ClassifyWith(t, classify.ticket_text) # classify.issue_type

\* the number of times a node ran in a turn
CountNode(trace, node) == Cardinality({i \in 1..Len(trace) : trace[i].node = node})

\* the longest path of the graph from ingest: seven nodes up to draft_reply,
\* then finalize
MaxTurnSteps == 8

\* a turn runs at most MaxTurnSteps nodes, each of draft_reply and
\* admin_review at most once, and a run that has stopped has reached END or
\* stands before admin_review
C31_TurnsAreBounded ==
    \A e \in ConcExecs :
        /\ Len(run[e].trace) <= MaxTurnSteps
        /\ CountNode(run[e].trace, "draft_reply") <= 1
        /\ CountNode(run[e].trace, "admin_review") <= 1
        /\ ( run[e].pc = "done" /\ Len(run[e].trace) > 0 ) =>
               NextNode(run[e].trace[Len(run[e].trace)].node, run[e].vals)
                   \in {END, "admin_review"}

\* a PENDING decision went through admin_review and draft_reply once and the
\* turn stopped before admin_review again
C31_Witness ==
    /\ run[1].pc = "done"
    /\ run[1].kind = "admin"
    /\ NodesOf(run[1].trace) = << "admin_review", "draft_reply" >>
    /\ Suspended(ckpt)

\* a request being served is served to its end: the server runs every
\* handler it has started
SpecFair == Spec /\ WF_vars(Serve(1))

\* C31: every turn on the graph with the interrupt before admin_review
\* terminates: it runs a bounded number of nodes, the draft_reply /
\* admin_review cycle at most once, then reaches END or suspends before
\* admin_review, and the request is answered.
C31_TurnsTerminate ==
    /\ []C31_TurnsAreBounded
    /\ (run[1].pc # "idle") ~> (run[1].pc = "idle")

\* the ticket names an order the store holds and its text matches a rule
ResolvableAndClassifiable(text, order_id) ==
    /\ ClassifyText(text) # "unknown"
    /\ \/ order_id # None /\ fetch_order(order_id) # NoOrder
       \/ /\ order_id = None
          /\ extract_order_id(text) # None
          /\ fetch_order(extract_order_id(text)) # NoOrder

\* C32: on the graph compiled with no interrupt point, an invoke on a ticket
\* with a resolvable order id and a classifiable issue ends by returning a
\* state in which order_id, issue_type, order_details and draft_reply are set.
C32_PlainInvokeCompletes ==
    \A e \in Execs :
        ( /\ run[e].kind = "plain"
          /\ ResolvableAndClassifiable(run[e].text, run[e].order_id)
          /\ run[e].pc \in {"done", "error"} ) =>
            /\ run[e].pc = "done"
            /\ run[e].vals.order_id # None
            /\ run[e].vals.issue_type \notin {None, "unknown"}
            /\ run[e].vals.order_details # NoOrder
            /\ run[e].vals.draft_reply # None

\* C33: in a turn that ingest routed RECLASSIFY (order_details present,
\* issue_type unset or unknown) resolve_order does not run, so the order
\* store is not queried again.
C33_ReclassifySkipsResolveOrder ==
    \A e \in ConcExecs :
        ( /\ run[e].kind = "user"
          /\ Len(run[e].trace) > 0
          /\ run[e].vals.route_path = RECLASSIFY ) =>
            ~HasNode(run[e].trace, "resolve_order")

\* C34: whenever a turn has ended, the thread is suspended before
\* admin_review exactly when its review_status is PENDING.
C34_SuspendedIffPending ==
    ( /\ ckpt.exists
      /\ \A e \in ConcExecs : run[e].pc = "idle" ) =>
        ( Suspended(ckpt) <=> ckpt.values.review_status = PENDING )

\* C35: whenever no request is being served, the thread is listed in
\* pending_tickets exactly when it is suspended before admin_review with
\* review_status PENDING.
C35_RegistryAgreesWithEngine ==
    ( \A e \in ConcExecs : run[e].pc = "idle" ) =>
        ( THREAD \in pending_tickets <=>
            ( Suspended(ckpt) /\ ckpt.values.review_status = PENDING ) )

\* C36: whenever a turn has ended, order_details present implies that
\* order_id is set and is the id of order_details, and scenario REPLY
\* implies that order_details is present.
C36_OrderFieldsConsistent ==
    \A e \in ConcExecs :
        run[e].pc = "done" =>
            /\ run[e].vals.order_details # NoOrder =>
                 /\ run[e].vals.order_id # None
                 /\ run[e].vals.order_details.order_id = run[e].vals.order_id
            /\ run[e].vals.draft_scenario = REPLY =>
                 run[e].vals.order_details # NoOrder

\* a turn that found its order through the email search has ended in
\* scenario REPLY
C36_Witness ==
    /\ run[1].pc = "done"
    /\ run[1].vals.email # None
    /\ run[1].vals.order_details # NoOrder
    /\ run[1].vals.draft_scenario = REPLY

\* C37: classify_issue executes in a turn only if the thread's issue_type was
\* unset or unknown when the turn started, and a meaningful issue_type is
\* never replaced afterwards, by a user turn or by an admin decision
MeaningfulIssue(issue_type) == issue_type \notin {None, "unknown"}

C37_IssueTypeIsSticky ==
    [][/\ \A e \in ConcExecs :
            (run[e].pc = "classify_issue" /\ run'[e].pc # "classify_issue") =>
                ~MeaningfulIssue(run[e].pre.values.issue_type)
       /\ (ckpt.exists /\ MeaningfulIssue(ckpt.values.issue_type)) =>
             ckpt'.values.issue_type = ckpt.values.issue_type]_vars

\* C38: in a user turn that ingest routes DRAFT the scenario ingest leaves
\* in the state is REPLY, and the draft_reply of that turn runs its pending,
\* approved or rejected phase
C38_DraftRouteHasReplyScenario ==
    \A e \in ConcExecs :
        (/\ run[e].kind = "user"
         /\ Len(run[e].trace) > 0
         /\ run[e].vals.route_path = DRAFT) =>
            /\ Len(run[e].trace) = 1 => run[e].vals.draft_scenario = REPLY
            /\ \A i \in 1..Len(run[e].trace) :
                  run[e].trace[i].node = "draft_reply" =>
                      run[e].trace[i].phase \in {"pending", "approved", "rejected"}

\* a user turn that followed a RECLASSIFY turn was routed DRAFT and drafted
\* in the pending phase
C38_Witness ==
    /\ run[1].kind = "user"
    /\ run[1].pc = "done"
    /\ run[1].vals.route_path = DRAFT
    /\ run[1].pre.values.route_path = RECLASSIFY
    /\ HasPhase(run[1].trace, "pending")

\* C39: a follow-up turn after a turn that ended in ORDER_NOT_FOUND, with a
\* text that holds an email address with exactly one order and no order id,
\* ends with that order's order_id and order_details and scenario REPLY
C39_EmailAfterOrderNotFound ==
    \A e \in ConcExecs :
        LET pre == run[e].pre
            candidates == search_orders(extract_email(run[e].text))
        IN  (/\ run[e].kind = "user"
             /\ run[e].pc = "done"
             /\ IsFollowUp(pre)
             /\ pre.next = END
             /\ pre.values.draft_scenario = ORDER_NOT_FOUND
             /\ extract_order_id(run[e].text) = None
             /\ extract_email(run[e].text) # None
             /\ Len(candidates) = 1) =>
                /\ run[e].vals.draft_scenario = REPLY
                /\ run[e].vals.order_details = candidates[1]
                /\ run[e].vals.order_id = candidates[1].order_id

====
